---- MODULE Spec2Model ----
(***************************************************************************)
(* chunimidi: streaming decoder of the framed / byte-stuffed LED protocol, *)
(* the slider -> 8 drum pad reduction, the pad colours sent to the         *)
(* controller and main() from enable_daw_mode to its return.               *)
(* Indices of the Rust source are 0-based; sequences here are 1-based, so  *)
(* the Rust expression buf[i] is written buf[i + 1].                       *)
(***************************************************************************)
EXTENDS Integers, Sequences, FiniteSets, TLC

VARIABLES
    wire,           \* bytes the peer puts on the stream, in order
    payload,        \* the unescaped payload of the frame inside wire
    frameStart,     \* number of bytes of wire before the frame's marker
    frameEnd,       \* number of bytes of wire up to the frame's last byte
    buf,            \* slice handed to try_parse_packet by the decoder harness
    res,            \* value returned by the latest try_parse_packet call
    decoded,        \* the local `decoded` of that call when its scan ended
    leds,           \* slider LED array handed to slider_to_drum_pads
    drum_pads,      \* value returned by the latest slider_to_drum_pads call
    prev_pads,      \* drum_pads before the latest change of one LED
    changed,        \* 0-based index of the LED changed last, -1 if none
    pc,             \* position of the main thread
    window,         \* main()'s receive buffer
    rpos,           \* number of bytes of wire already returned by read
    packets,        \* packets decoded by the stream loop, in order
    last_drum_pads, \* main()'s last_drum_pads: None or the last summary sent
    sent,           \* calls of send_rgb_to_launchkey: the summary and whether it succeeded
    running,        \* the AtomicBool shared with the signal thread
    cuts,           \* positions of wire at which a read of the stream may end
    daw_msgs,       \* DAW mode messages handed to conn.send, and whether it succeeded
    launchkey,      \* velocity each of the 8 drum pads of the controller shows
    after_stop,     \* read calls returned and sink calls made since the flag was cleared
    attempts,       \* decode attempts of the inner loop since the latest read
    read_len        \* length of window right after the latest read appended to it

vars == <<wire, payload, frameStart, frameEnd, buf, res, decoded,
          leds, drum_pads, prev_pads, changed,
          pc, window, rpos, packets, last_drum_pads, sent, running,
          cuts, daw_msgs, launchkey, after_stop, attempts, read_len>>

parseVars == <<wire, payload, frameStart, frameEnd, cuts, buf, res, decoded>>
padVars   == <<leds, drum_pads, prev_pads, changed>>
midiVars  == <<daw_msgs, launchkey>>
histVars  == <<after_stop, attempts, read_len>>
loopVars  == <<pc, window, rpos, packets, last_drum_pads, sent, running,
               daw_msgs, launchkey, after_stop, attempts, read_len>>

(***************************************************************************)
(* Bounds of the checked instances.                                        *)
(***************************************************************************)
MaxSeed    == 2    \* payload patterns 0..MaxSeed
MaxEscMode == 2    \* encoder escape policies 0..MaxEscMode
MaxTail    == 2    \* at most this many bytes appended behind a complete frame
MaxGarbage == 2    \* at most this many garbage bytes before a frame
MaxColor   == 3    \* colour patterns 0..MaxColor for the zone reducer

(***************************************************************************)
(* Program constants.                                                      *)
(***************************************************************************)
LED_PACKET_FRAMING == 224
LED_PACKET_ESCAPE  == 208
LED_BOARDS_TOTAL   == 3
CHUNI_LED_BOARD_DATA_LENS == <<53 * 3, 63 * 3, 31 * 3>>

Byte == 0..255

None == [some |-> FALSE]
Some(v) == [some |-> TRUE, val |-> v]

Min(a, b) == IF a < b THEN a ELSE b

\* mutant: u8::saturating_add
WrappingAdd_Saturating(a, b) == IF a + b > 255 THEN 255 ELSE a + b

\* u8::wrapping_add
WrappingAdd(a, b) == (a + b) % 256

\* `x as u8` of a u32
AsU8(x) == x % 256

Rgb(r, g, b) == [r |-> r, g |-> g, b |-> b]

\* data.chunks(3).filter(len == 3).map(Rgb { r: chunk[1], g: chunk[2], b: chunk[0] })
bytes_to_rgb_vec(data) ==
    [k \in 1..(Len(data) \div 3) |->
        Rgb(data[3 * (k - 1) + 2], data[3 * (k - 1) + 3], data[3 * (k - 1) + 1])]

\* mutant: the copy is returned without reversing it
reverse_slider_leds_NoReverse(l) == l

\* slice::reverse on a copy
reverse_slider_leds(l) == [k \in 1..Len(l) |-> l[Len(l) + 1 - k]]

\* <[Rgb; n]>::try_from(slice): Ok only for a slice of exactly n elements
TryFromOk(s, n) == Len(s) = n

\* slice::split_at(mid): panics when mid > len
SplitAtOk(s, mid) == mid <= Len(s)
SplitAtHead(s, mid) == SubSeq(s, 1, mid)
SplitAtTail(s, mid) == SubSeq(s, mid + 1, Len(s))

NoPayload == [kind |-> "None", main |-> <<>>, side |-> <<>>]
ErrResult(e) == [tag |-> e, board |-> 0, payload |-> NoPayload, used |-> 0]

\* mutant: the consumed count leaves out the two header bytes
OkResult_PayloadBytesOnly(board, pl, i) ==
    [tag |-> "Ok", board |-> board, payload |-> pl, used |-> i - 2]

\* Ok((LedPacket { board, payload }, i))
OkResult(board, pl, i) == [tag |-> "Ok", board |-> board, payload |-> pl, used |-> i]

\* mutant: only the length is checked, not the frame marker
HeaderInvalid_LenOnly(b) == Len(b) < 2

\* buf.len() < 2 || buf[0] != LED_PACKET_FRAMING
HeaderInvalid(b) == Len(b) < 2 \/ b[1] # LED_PACKET_FRAMING

\* (board as usize) >= LED_BOARDS_TOTAL
BoardInvalid(board) == board >= LED_BOARDS_TOTAL

\* mutant: the check after the scan is left out
StillShort_Never(dec, expected_data_len) == FALSE

\* decoded.len() < expected_data_len, after the scan
StillShort(dec, expected_data_len) == Len(dec) < expected_data_len

\* One evaluation of the while condition of try_parse_packet and, when it
\* holds, of the loop body. st is the state of the scan: i (the Rust, 0-based
\* index), decoded, and ret: "Run" while the loop runs, "Incomplete" once the
\* body has returned Err(Incomplete), "End" once the condition has failed.
ScanStep(b, st, expected_data_len) ==
    IF st.ret # "Run" THEN st
    ELSE IF st.i < Len(b) /\ Len(st.decoded) < expected_data_len
    THEN IF b[st.i + 1] = LED_PACKET_ESCAPE
         THEN IF st.i + 1 >= Len(b)
              THEN [ret |-> "Incomplete", i |-> st.i + 1, decoded |-> st.decoded]
              ELSE [ret |-> "Run", i |-> st.i + 2,
                    decoded |-> Append(st.decoded, WrappingAdd(b[st.i + 2], 1))]
         ELSE [ret |-> "Run", i |-> st.i + 1, decoded |-> Append(st.decoded, b[st.i + 1])]
    ELSE [ret |-> "End", i |-> st.i, decoded |-> st.decoded]

\* n successive steps of the loop, split in halves; the second half is
\* skipped once the loop has been left
RECURSIVE ScanSteps(_, _, _, _)
ScanSteps(b, st, expected_data_len, n) ==
    IF n <= 1 THEN ScanStep(b, st, expected_data_len)
    ELSE LET half == ScanSteps(b, st, expected_data_len, n \div 2)
         IN  IF half.ret = "Run"
             THEN ScanSteps(b, half, expected_data_len, n - (n \div 2))
             ELSE half

\* the while loop of try_parse_packet, from i = 2 and an empty decoded: every
\* pass of the body pushes one byte or returns, so the condition is
\* evaluated at most expected_data_len + 1 times
ScanLoop(b, expected_data_len) ==
    ScanSteps(b, [ret |-> "Run", i |-> 2, decoded |-> <<>>],
              expected_data_len, expected_data_len + 1)

\* the match on board that builds the LedBoard value
BuildPayload(board, rgb_vec, i) ==
    CASE board = 0 ->
            IF SplitAtOk(rgb_vec, 53)
               /\ TryFromOk(SplitAtHead(rgb_vec, 53), 53)
               /\ TryFromOk(SplitAtTail(rgb_vec, 53), 3)
            THEN OkResult(board, [kind |-> "BillboardLeft",
                                  main |-> SplitAtHead(rgb_vec, 53),
                                  side |-> SplitAtTail(rgb_vec, 53)], i)
            ELSE ErrResult("Panic")
      [] board = 1 ->
            IF SplitAtOk(rgb_vec, 60)
               /\ TryFromOk(SplitAtHead(rgb_vec, 60), 60)
               /\ TryFromOk(SplitAtTail(rgb_vec, 60), 3)
            THEN OkResult(board, [kind |-> "BillboardRight",
                                  main |-> SplitAtHead(rgb_vec, 60),
                                  side |-> SplitAtTail(rgb_vec, 60)], i)
            ELSE ErrResult("Panic")
      [] board = 2 ->
            IF TryFromOk(rgb_vec, 31)
            THEN OkResult(board, [kind |-> "Slider",
                                  main |-> reverse_slider_leds(rgb_vec),
                                  side |-> <<>>], i)
            ELSE ErrResult("Panic")
      [] OTHER -> ErrResult("Invalid")

\* try_parse_packet together with the local `decoded` it leaves behind
ParseFull(b) ==
    IF HeaderInvalid(b)
    THEN [result |-> ErrResult("Invalid"), decoded |-> <<>>]
    ELSE IF BoardInvalid(b[2])
    THEN [result |-> ErrResult("Invalid"), decoded |-> <<>>]
    ELSE LET board == b[2]
             expected_data_len == CHUNI_LED_BOARD_DATA_LENS[board + 1]
             s == ScanLoop(b, expected_data_len)
         IN  IF s.ret = "Incomplete"
             THEN [result |-> ErrResult("Incomplete"), decoded |-> s.decoded]
             ELSE IF StillShort(s.decoded, expected_data_len)
             THEN [result |-> ErrResult("Incomplete"), decoded |-> s.decoded]
             ELSE [result |-> BuildPayload(board, bytes_to_rgb_vec(s.decoded), s.i),
                   decoded |-> s.decoded]

try_parse_packet(b) == ParseFull(b).result

(***************************************************************************)
(* Frames put on the wire by the peer: payload patterns and the encoder.   *)
(***************************************************************************)
ValidBoards == 0..(LED_BOARDS_TOTAL - 1)

\* seed 0: distinct values without 0xD0 / 0xE0; seed 1: a ramp through 0xD0,
\* 0xE0, 0xFF and 0x00; seed 2: only edge values; others: a stride pattern
PatByte(seed, i) ==
    CASE seed = 0 -> i
      [] seed = 1 -> (i + 120) % 256
      [] seed = 2 -> <<208, 224, 0, 255, 207, 223>>[(i % 6) + 1]
      [] OTHER    -> (i * (2 * seed + 1) + 11) % 256

PayloadOf(board, seed) ==
    [i \in 1..CHUNI_LED_BOARD_DATA_LENS[board + 1] |-> PatByte(seed, i)]

\* escape policy of the encoder: 0xD0 is always escaped
ShouldEscape(mode, i, b) ==
    \/ b = LED_PACKET_ESCAPE
    \/ mode = 1 /\ b = LED_PACKET_FRAMING
    \/ mode = 2
    \/ mode >= 3 /\ i % mode = 0

EncodeByte(mode, i, b) ==
    IF ShouldEscape(mode, i, b)
    THEN <<LED_PACKET_ESCAPE, (b + 255) % 256>>
    ELSE <<b>>

\* encoding of p[lo..hi], by halves
RECURSIVE EncodeRange(_, _, _, _)
EncodeRange(p, lo, hi, mode) ==
    IF lo > hi THEN <<>>
    ELSE IF lo = hi THEN EncodeByte(mode, lo, p[lo])
    ELSE LET mid == (lo + hi) \div 2
         IN  EncodeRange(p, lo, mid, mode) \o EncodeRange(p, mid + 1, hi, mode)

Encode(p, mode) == EncodeRange(p, 1, Len(p), mode)

FrameOf(board, p, mode) == <<LED_PACKET_FRAMING, board>> \o Encode(p, mode)

\* bytes that may follow a frame in the buffer
TailBytes == {0, 2, LED_PACKET_ESCAPE, LED_PACKET_FRAMING}

\* headers try_parse_packet must reject
BadHeaders == {<<LED_PACKET_FRAMING, 3>>, <<LED_PACKET_FRAMING, LED_PACKET_FRAMING>>,
               <<LED_PACKET_FRAMING, 255>>, <<0, 2>>, <<LED_PACKET_ESCAPE, 0>>,
               <<225, 1>>}

HeaderValid(b) ==
    Len(b) >= 2 /\ b[1] = LED_PACKET_FRAMING /\ b[2] \in ValidBoards

(***************************************************************************)
(* Decoder harness: the buffer grows by one byte of the wire at a time and *)
(* try_parse_packet is called on every prefix.                             *)
(***************************************************************************)
PadIdle  == /\ leds = <<>> /\ drum_pads = <<>> /\ prev_pads = <<>> /\ changed = -1
LoopIdle == /\ pc = "off" /\ window = <<>> /\ rpos = 0 /\ packets = <<>>
            /\ last_drum_pads = None /\ sent = <<>> /\ running = TRUE
            /\ daw_msgs = <<>> /\ launchkey = <<>>
            /\ after_stop = [reads |-> 0, sends |-> 0]
            /\ attempts = 0 /\ read_len = 0

ParseInit ==
    /\ \/ \E board \in ValidBoards, seed \in 0..MaxSeed, mode \in 0..MaxEscMode :
              /\ payload = PayloadOf(board, seed)
              /\ wire = FrameOf(board, payload, mode)
              /\ frameEnd = Len(wire)
       \/ \E h \in BadHeaders :
              /\ payload = PayloadOf(2, 0)
              /\ wire = h \o Encode(payload, 0)
              /\ frameEnd = Len(wire)
    /\ frameStart = 0
    /\ cuts = {}
    /\ buf = <<>>
    /\ res = try_parse_packet(<<>>)
    /\ decoded = <<>>
    /\ PadIdle
    /\ LoopIdle

Feed ==
    /\ pc = "off"
    /\ Len(buf) < Len(wire)
    /\ buf' = Append(buf, wire[Len(buf) + 1])
    /\ res' = ParseFull(buf').result
    /\ decoded' = ParseFull(buf').decoded
    /\ UNCHANGED <<wire, payload, frameStart, frameEnd, cuts>>
    /\ UNCHANGED padVars
    /\ UNCHANGED loopVars

\* bytes behind the complete frame: the call is repeated on the longer buffer
Extend ==
    /\ pc = "off"
    /\ Len(buf) >= Len(wire)
    /\ Len(buf) < Len(wire) + MaxTail
    /\ \E b \in TailBytes :
          /\ buf' = Append(buf, b)
          /\ res' = ParseFull(buf').result
          /\ decoded' = ParseFull(buf').decoded
    /\ UNCHANGED <<wire, payload, frameStart, frameEnd, cuts>>
    /\ UNCHANGED padVars
    /\ UNCHANGED loopVars

ParseNext == Feed \/ Extend

SpecParse == ParseInit /\ [][ParseNext]_vars

(***************************************************************************)
(* Claims about try_parse_packet, checked under SpecParse.                 *)
(***************************************************************************)
ExpectedLen(b) == CHUNI_LED_BOARD_DATA_LENS[b[2] + 1]

\* C1: with a valid header and exactly the board's payload length de-stuffed,
\* building the board payload cannot fail: the call returns Ok with
\* BillboardLeft(53 + 3), BillboardRight(60 + 3) or Slider(31) and never panics.
C1_BuildNeverFails ==
    (HeaderValid(buf) /\ Len(decoded) = ExpectedLen(buf)) =>
        /\ res.tag = "Ok"
        /\ res.board = buf[2]
        /\ buf[2] = 0 => /\ res.payload.kind = "BillboardLeft"
                         /\ Len(res.payload.main) = 53
                         /\ Len(res.payload.side) = 3
        /\ buf[2] = 1 => /\ res.payload.kind = "BillboardRight"
                         /\ Len(res.payload.main) = 60
                         /\ Len(res.payload.side) = 3
        /\ buf[2] = 2 => /\ res.payload.kind = "Slider"
                         /\ Len(res.payload.main) = 31

\* C2: for every board, the frame one raw byte short gives Incomplete, and
\* with the missing byte appended the call succeeds and consumes the full raw
\* length of the frame.
C2_OneShortThenComplete ==
    HeaderValid(buf) =>
        /\ Len(buf) = frameEnd - 1 => res.tag = "Incomplete"
        /\ Len(buf) = frameEnd => (res.tag = "Ok" /\ res.used = frameEnd)

\* C3: the call returns Invalid exactly when the buffer has fewer than 2
\* bytes, or does not start with 0xE0, or names a board >= 3; the outcome
\* depends on the first two bytes only, whatever bytes follow.
C3_InvalidIffBadHeader ==
    (res.tag = "Invalid") <=>
        (Len(buf) < 2 \/ buf[1] # LED_PACKET_FRAMING \/ buf[2] >= LED_BOARDS_TOTAL)

C3_Witness ==
    /\ Len(buf) >= 10
    /\ buf[1] = LED_PACKET_FRAMING
    /\ buf[2] >= LED_BOARDS_TOTAL
    /\ res.tag = "Invalid"

\* C4: with a valid header the call returns Incomplete exactly when the
\* buffer ends before the frame does (a dangling escape marker included);
\* it returns neither Invalid nor a packet then.
C4_IncompleteIffExhausted ==
    HeaderValid(buf) => ((res.tag = "Incomplete") <=> (Len(buf) < frameEnd))

C4_Witness ==
    /\ HeaderValid(buf)
    /\ Len(buf) > 2
    /\ Len(buf) < frameEnd
    /\ buf[Len(buf)] = LED_PACKET_ESCAPE
    /\ Len(decoded) = ExpectedLen(buf) - 1
    /\ res.tag = "Incomplete"

\* C5: on success the consumed count is the raw length of the frame (marker,
\* board byte, verbatim bytes and escape pairs), never more than the buffer
\* holds, and the result is the one of the call on the first `used` bytes
\* alone: bytes behind the frame change nothing.
C5_ConsumedExact ==
    res.tag = "Ok" =>
        /\ res.used = frameEnd
        /\ res.used <= Len(buf)
        /\ res = try_parse_packet(SubSeq(buf, 1, res.used))

C5_Witness ==
    /\ res.tag = "Ok"
    /\ Len(buf) = frameEnd + MaxTail
    /\ frameEnd > 2 + Len(payload)
    /\ buf[frameEnd + 1] = LED_PACKET_ESCAPE

\* C6: de-stuffing the encoding of a payload gives back the payload, for
\* every board and every encoder that escapes at least 0xD0, the bytes 0xD0,
\* 0xE0 and 0x00 (sent as 0xD0 0xFF) included.
C6_RoundTrip ==
    (HeaderValid(buf) /\ Len(buf) >= frameEnd) => decoded = payload

C6_Witness ==
    /\ HeaderValid(buf)
    /\ Len(buf) = frameEnd
    /\ decoded = payload
    /\ \E i \in 1..Len(payload) : payload[i] = 0
    /\ \E i \in 1..Len(payload) : payload[i] = LED_PACKET_ESCAPE
    /\ \E i \in 1..Len(payload) : payload[i] = LED_PACKET_FRAMING
    /\ \E j \in 3..(Len(buf) - 1) : buf[j] = LED_PACKET_ESCAPE /\ buf[j + 1] = 255

\* C7: a decoded board-2 frame is a Slider whose physical LED k (0..30) is
\* wire triple 30 - k, with r = byte 1, g = byte 2, b = byte 0 of the triple.
C7_SliderMapping ==
    (res.tag = "Ok" /\ res.board = 2) =>
        /\ res.payload.kind = "Slider"
        /\ Len(res.payload.main) = 31
        /\ \A k \in 0..30 :
              res.payload.main[k + 1] =
                  Rgb(payload[3 * (30 - k) + 2], payload[3 * (30 - k) + 3],
                      payload[3 * (30 - k) + 1])

C7_Witness ==
    /\ res.tag = "Ok"
    /\ res.board = 2
    /\ payload = PayloadOf(2, 0)
    /\ res.payload.main[1] = Rgb(92, 93, 91)

(***************************************************************************)
(* Zone reducer: slider_to_drum_pads.                                      *)
(***************************************************************************)
\* the inner for loop over leds[start_led..end_led]; the u32 totals stay
\* below 4 * 255 and cannot overflow
RECURSIVE SumLeds(_, _, _, _)
SumLeds(l, k, end_led, acc) ==
    IF k >= end_led THEN acc
    ELSE SumLeds(l, k + 1, end_led,
                 [total_r |-> acc.total_r + l[k + 1].r,
                  total_g |-> acc.total_g + l[k + 1].g,
                  total_b |-> acc.total_b + l[k + 1].b,
                  count   |-> acc.count + 1])

\* mutant: the group size is taken to be 4 for every pad
PadOf_DivideByFour(l, pad_idx) ==
    LET start_led == pad_idx * 4
        end_led == Min(start_led + 4, 31)
        t == SumLeds(l, start_led, end_led,
                     [total_r |-> 0, total_g |-> 0, total_b |-> 0, count |-> 0])
    IN  Rgb(AsU8(t.total_r \div 4), AsU8(t.total_g \div 4), AsU8(t.total_b \div 4))

\* one iteration of the outer loop: the value pad pad_idx ends with
PadOf(l, pad_idx) ==
    LET start_led == pad_idx * 4
        end_led == Min(start_led + 4, 31)
        t == SumLeds(l, start_led, end_led,
                     [total_r |-> 0, total_g |-> 0, total_b |-> 0, count |-> 0])
    IN  IF t.count > 0
        THEN Rgb(AsU8(t.total_r \div t.count), AsU8(t.total_g \div t.count),
                 AsU8(t.total_b \div t.count))
        ELSE Rgb(0, 0, 0)

slider_to_drum_pads(l) == [p \in 1..8 |-> PadOf(l, p - 1)]

\* colours used as inputs
ColorOf(c) ==
    CASE c = 0 -> Rgb(0, 0, 0)
      [] c = 1 -> Rgb(255, 255, 255)
      [] c = 2 -> Rgb(255, 0, 1)
      [] c = 3 -> Rgb(17, 130, 254)
      [] OTHER -> Rgb((c * 37) % 256, (c * 101) % 256, (c * 59) % 256)

\* LED arrays used as inputs: one colour throughout, or a colour that varies
\* from LED to LED
LedsOf(c, varied) ==
    [k \in 1..31 |->
        IF varied
        THEN Rgb((ColorOf(c).r + 7 * k) % 256, (ColorOf(c).g + 3 * k) % 256,
                 (ColorOf(c).b + 250 * k) % 256)
        ELSE ColorOf(c)]

ParseIdle == /\ wire = <<>> /\ payload = <<>> /\ frameStart = 0 /\ frameEnd = 0
             /\ cuts = {}
             /\ buf = <<>> /\ res = ErrResult("Invalid") /\ decoded = <<>>

PadsInit ==
    /\ \E c \in 0..MaxColor, varied \in BOOLEAN : leds = LedsOf(c, varied)
    /\ drum_pads = slider_to_drum_pads(leds)
    /\ prev_pads = drum_pads
    /\ changed = -1
    /\ ParseIdle
    /\ LoopIdle

\* one LED of the input changes and the reducer is called again
SetLed ==
    /\ pc = "off"
    /\ changed = -1
    /\ leds # <<>>
    /\ \E k \in 0..30, c \in 0..MaxColor :
          /\ leds[k + 1] # ColorOf(c)
          /\ leds' = [leds EXCEPT ![k + 1] = ColorOf(c)]
          /\ changed' = k
    /\ prev_pads' = drum_pads
    /\ drum_pads' = slider_to_drum_pads(leds')
    /\ UNCHANGED parseVars
    /\ UNCHANGED loopVars

PadsNext == SetLed

SpecPads == PadsInit /\ [][PadsNext]_vars

\* truncating mean of one channel over physical LEDs [4i, min(4i + 4, 31))
ZoneMean(l, i, ch) ==
    IF i < 7
    THEN (l[4 * i + 1][ch] + l[4 * i + 2][ch] + l[4 * i + 3][ch] + l[4 * i + 4][ch]) \div 4
    ELSE (l[29][ch] + l[30][ch] + l[31][ch]) \div 3

\* C8: slider_to_drum_pads returns 8 zones, zone i being the truncating
\* per-channel mean of LEDs [4i, min(4i + 4, 31)), which fits 8 bits; 31
\* identical colours give 8 zones of that colour, and a change of LED 30
\* changes no zone but zone 7.
C8_ZoneMeans ==
    leds # <<>> =>
        /\ Len(drum_pads) = 8
        /\ \A i \in 0..7 :
              /\ drum_pads[i + 1] =
                    Rgb(ZoneMean(leds, i, "r"), ZoneMean(leds, i, "g"), ZoneMean(leds, i, "b"))
              /\ \A ch \in {"r", "g", "b"} : drum_pads[i + 1][ch] \in 0..255
        /\ (\A k \in 1..31 : leds[k] = leds[1]) => (\A i \in 1..8 : drum_pads[i] = leds[1])
        /\ changed = 30 => (\A i \in 1..7 : drum_pads[i] = prev_pads[i])

C8_Witness ==
    /\ changed = 30
    /\ drum_pads[8] # prev_pads[8]
    /\ \A i \in 1..7 : drum_pads[i] = prev_pads[i]
    /\ \A i \in 1..7 : drum_pads[i] = leds[1]
    /\ drum_pads[8] = Rgb(ZoneMean(leds, 7, "r"), ZoneMean(leds, 7, "g"), ZoneMean(leds, 7, "b"))

(***************************************************************************)
(* The controller: the colour each drum pad shows after the note messages  *)
(* the MIDI connection has delivered.                                      *)
(***************************************************************************)
\* the palette of rgb_to_launchkey_velocity, entries <<velocity, r, g, b>>
Palette == <<
    <<0, 0, 0, 0>>, <<1, 128, 128, 128>>, <<2, 192, 192, 192>>, <<3, 255, 255, 255>>,
    <<4, 255, 192, 192>>, <<5, 255, 0, 0>>, <<6, 192, 0, 0>>, <<7, 128, 0, 0>>,
    <<8, 255, 192, 128>>, <<9, 255, 128, 0>>, <<10, 192, 96, 0>>, <<11, 128, 64, 0>>,
    <<12, 255, 255, 128>>, <<13, 255, 255, 0>>, <<14, 192, 192, 0>>, <<15, 128, 128, 0>>,
    <<16, 192, 255, 128>>, <<17, 128, 255, 0>>, <<18, 96, 192, 0>>, <<19, 64, 128, 0>>,
    <<20, 192, 255, 192>>, <<21, 0, 255, 0>>, <<22, 0, 192, 0>>, <<23, 0, 128, 0>>,
    <<24, 128, 255, 192>>, <<25, 0, 255, 128>>, <<26, 0, 192, 96>>, <<27, 0, 128, 64>>,
    <<28, 128, 255, 255>>, <<29, 0, 255, 255>>, <<30, 0, 192, 192>>, <<31, 0, 128, 128>>,
    <<32, 128, 192, 255>>, <<33, 0, 128, 255>>, <<34, 0, 96, 192>>, <<35, 0, 64, 128>>,
    <<36, 128, 128, 255>>, <<37, 0, 0, 255>>, <<38, 0, 0, 192>>, <<39, 0, 0, 128>>,
    <<40, 192, 128, 255>>, <<41, 128, 0, 255>>, <<42, 96, 0, 192>>, <<43, 64, 0, 128>>,
    <<44, 255, 128, 255>>, <<45, 255, 0, 255>>, <<46, 192, 0, 192>>, <<47, 128, 0, 128>>,
    <<48, 255, 128, 192>>, <<49, 255, 0, 128>>, <<50, 192, 0, 96>>, <<51, 128, 0, 64>>
    >>

\* the square of the distance to a palette entry; the code compares the
\* square roots, which are ordered as the squares are
Distance2(rgb, e) ==
    (rgb.r - e[2]) * (rgb.r - e[2]) + (rgb.g - e[3]) * (rgb.g - e[3])
        + (rgb.b - e[4]) * (rgb.b - e[4])

\* the for loop over the palette from entry k on; best_distance -1 stands
\* for f64::INFINITY
RECURSIVE NearestFrom(_, _, _, _)
NearestFrom(rgb, k, best_velocity, best_distance) ==
    IF k > Len(Palette) THEN best_velocity
    ELSE LET distance == Distance2(rgb, Palette[k]) IN
         IF best_distance < 0 \/ distance < best_distance
         THEN NearestFrom(rgb, k + 1, Palette[k][1], distance)
         ELSE NearestFrom(rgb, k + 1, best_velocity, best_distance)

rgb_to_launchkey_velocity(rgb) == NearestFrom(rgb, 1, 0, -1)

\* the velocities the 8 note messages of send_rgb_to_launchkey carry
VelocitiesOf(pads) == [i \in 1..8 |-> rgb_to_launchkey_velocity(pads[i])]

\* conn.send may fail at the message of pad k (0-based): the k messages
\* before it have been delivered, `?` returns the error; the failures looked
\* at are the ones in the middle of a call
FailPoints == {3}

\* number of note messages one call delivers: all 8 when it returns Ok
SendOutcomes == FailPoints \cup {8}

\* mutant: a failing call delivers nothing
PadsAfterSend_AllOrNothing(shown, pads, k) ==
    IF k = 8 THEN VelocitiesOf(pads) ELSE shown

\* send_rgb_to_launchkey: the pads of the controller after the first k note
\* messages of the call
PadsAfterSend(shown, pads, k) ==
    [i \in 1..8 |-> IF i <= k THEN rgb_to_launchkey_velocity(pads[i]) ELSE shown[i]]

\* test_pads of send_test_colors
TestPads == [i \in 1..8 |-> Rgb(0, 255, 0)]

\* the drum pads before the program has sent a note: -1, not a velocity
PadsUnset == [i \in 1..8 |-> -1]

(***************************************************************************)
(* main() from enable_daw_mode on; the signal thread runs beside it.       *)
(***************************************************************************)
\* vec![0u8; 4096]: the most one read returns
ReadBufLen == 4096

GarbageKinds == 0..2

\* kind 0: no frame marker; kind 1: frame markers only; kind 2: a frame
\* marker followed by a board index, as the head of a lost frame would be
GarbageByte(kind, j) ==
    CASE kind = 0 -> (j * 53) % 208
      [] kind = 1 -> LED_PACKET_FRAMING
      [] OTHER    -> IF j = 1 THEN LED_PACKET_FRAMING ELSE j

GarbageOf(kind, n) == [j \in 1..n |-> GarbageByte(kind, j)]

RestKinds == 0..2

\* what follows the frame on the stream: nothing, bytes without a frame
\* marker, or the head of the next frame
RestOf(r) ==
    CASE r = 0 -> <<>>
      [] r = 1 -> <<7, LED_PACKET_ESCAPE>>
      [] OTHER -> <<LED_PACKET_FRAMING, 2, 9>>

\* the places where a read may end: in the garbage, behind the frame marker,
\* behind the board byte, in the middle of the payload, one byte before the
\* end of the frame, at its end, and behind it
CutPoints ==
    (1..(frameStart + 2)) \cup {(frameStart + frameEnd) \div 2}
        \cup ((frameEnd - 1)..Len(wire))

\* the state main() is in when it calls enable_daw_mode
StreamStart ==
    /\ buf = <<>>
    /\ res = ErrResult("Invalid")
    /\ decoded = <<>>
    /\ PadIdle
    /\ pc = "enable_daw"
    /\ window = <<>>
    /\ rpos = 0
    /\ packets = <<>>
    /\ last_drum_pads = None
    /\ sent = <<>>
    /\ running = TRUE
    /\ daw_msgs = <<>>
    /\ launchkey = PadsUnset
    /\ after_stop = [reads |-> 0, sends |-> 0]
    /\ attempts = 0
    /\ read_len = 0

\* the stream: garbage, one frame, and what follows it; bytes behind the
\* frame are tried with a frame at the head of the stream
StreamInit ==
    /\ \E kind \in GarbageKinds, n \in 0..MaxGarbage, board \in ValidBoards,
          mode \in 0..MaxEscMode, r \in RestKinds :
          /\ n = 0 \/ r = 0
          /\ payload = PayloadOf(board, mode % (MaxSeed + 1))
          /\ frameStart = n
          /\ frameEnd = n + Len(FrameOf(board, payload, mode))
          /\ wire = GarbageOf(kind, n) \o FrameOf(board, payload, mode) \o RestOf(r)
          /\ cuts = CutPoints
    /\ StreamStart

\* the signal thread: r.store(false) on SIGINT / SIGTERM
SignalReceived ==
    /\ pc # "off"
    /\ running
    /\ running' = FALSE
    /\ UNCHANGED <<pc, window, rpos, packets, last_drum_pads, sent>>
    /\ UNCHANGED midiVars
    /\ UNCHANGED histVars
    /\ UNCHANGED parseVars
    /\ UNCHANGED padVars

\* enable_daw_mode(&mut midi_conn)?
EnableDaw ==
    /\ pc = "enable_daw"
    /\ \E ok \in BOOLEAN :
          /\ daw_msgs' = Append(daw_msgs, [msg |-> "enable", ok |-> ok])
          /\ pc' = IF ok THEN "test_colors" ELSE "enable_err"
    /\ UNCHANGED <<window, rpos, packets, last_drum_pads, sent, running, launchkey>>
    /\ UNCHANGED histVars
    /\ UNCHANGED parseVars
    /\ UNCHANGED padVars

\* send_test_colors(&mut midi_conn)?: the 8 notes that black out the top
\* pads, then send_rgb_to_launchkey with the green test pads
SendTestColors ==
    /\ pc = "test_colors"
    /\ \/ /\ pc' = "test_err"
          /\ launchkey' = launchkey
       \/ \E k \in SendOutcomes :
             /\ launchkey' = PadsAfterSend(launchkey, TestPads, k)
             /\ pc' = IF k = 8 THEN "connect" ELSE "test_err"
    /\ UNCHANGED <<window, rpos, packets, last_drum_pads, sent, running, daw_msgs>>
    /\ UNCHANGED histVars
    /\ UNCHANGED parseVars
    /\ UNCHANGED padVars

\* match UnixStream::connect(..): Ok enters the stream loop, Err the loop
\* that waits for the signal
Connect ==
    /\ pc = "connect"
    /\ \E ok \in BOOLEAN : pc' = IF ok THEN "head" ELSE "wait"
    /\ UNCHANGED <<window, rpos, packets, last_drum_pads, sent, running>>
    /\ UNCHANGED midiVars
    /\ UNCHANGED histVars
    /\ UNCHANGED parseVars
    /\ UNCHANGED padVars

\* while running.load(..) { sleep(100 ms) } of the Err arm: the loop is left
\* once the flag is cleared (an iteration that sleeps changes nothing)
WaitLoop ==
    /\ pc = "wait"
    /\ ~running
    /\ pc' = "cleanup"
    /\ UNCHANGED <<window, rpos, packets, last_drum_pads, sent, running>>
    /\ UNCHANGED midiVars
    /\ UNCHANGED histVars
    /\ UNCHANGED parseVars
    /\ UNCHANGED padVars

\* mutant: the loop condition is not looked at
AfterLoopHead_Ignore(r) == "read"

\* while running.load(Ordering::SeqCst): where the main thread goes
AfterLoopHead(r) == IF r THEN "read" ELSE "cleanup"

LoopHead ==
    /\ pc = "head"
    /\ pc' = AfterLoopHead(running)
    /\ UNCHANGED <<window, rpos, packets, last_drum_pads, sent, running>>
    /\ UNCHANGED midiVars
    /\ UNCHANGED histVars
    /\ UNCHANGED parseVars
    /\ UNCHANGED padVars

\* a read call that returns after the flag was cleared is counted
ReadReturned == IF running THEN after_stop ELSE [after_stop EXCEPT !.reads = @ + 1]

\* stream.read(&mut buf)? returning n > 0, and window.extend_from_slice
ReadSome ==
    /\ pc = "read"
    /\ \E p \in cuts :
          LET n == p - rpos IN
          /\ n >= 1
          /\ n <= ReadBufLen
          /\ window' = window \o SubSeq(wire, rpos + 1, rpos + n)
          /\ rpos' = rpos + n
    /\ read_len' = Len(window')
    /\ attempts' = 0
    /\ after_stop' = ReadReturned
    /\ pc' = "sync"
    /\ UNCHANGED <<packets, last_drum_pads, sent, running>>
    /\ UNCHANGED midiVars
    /\ UNCHANGED parseVars
    /\ UNCHANGED padVars

\* mutant: the loop body goes on after a read of 0 bytes
AfterEof_NoBreak == "sync"

\* if n == 0 { break; }
AfterEof == "cleanup"

\* stream.read returning 0 once the peer has closed the stream
ReadEof ==
    /\ pc = "read"
    /\ rpos = Len(wire)
    /\ after_stop' = ReadReturned
    /\ pc' = AfterEof
    /\ UNCHANGED <<window, rpos, packets, last_drum_pads, sent, running>>
    /\ UNCHANGED <<attempts, read_len>>
    /\ UNCHANGED midiVars
    /\ UNCHANGED parseVars
    /\ UNCHANGED padVars

\* stream.read returning Err: `?` returns from main
ReadFails ==
    /\ pc = "read"
    /\ after_stop' = ReadReturned
    /\ pc' = "read_err"
    /\ UNCHANGED <<window, rpos, packets, last_drum_pads, sent, running>>
    /\ UNCHANGED <<attempts, read_len>>
    /\ UNCHANGED midiVars
    /\ UNCHANGED parseVars
    /\ UNCHANGED padVars

\* window.iter().position(|&b| b == LED_PACKET_FRAMING), 0-based, -1 for None
Position(w) ==
    IF \E k \in 1..Len(w) : w[k] = LED_PACKET_FRAMING
    THEN (CHOOSE k \in 1..Len(w) :
            w[k] = LED_PACKET_FRAMING /\ \A j \in 1..(k - 1) : w[j] # LED_PACKET_FRAMING) - 1
    ELSE -1

\* Vec::drain(0..n)
Drain(w, n) == SubSeq(w, n + 1, Len(w))

\* the end of one iteration of the outer loop: the counters of the inner
\* loop start again
BodyDone == /\ attempts' = 0 /\ read_len' = 0

\* the head of the inner loop: while let Some(pos) = ...position(..), and
\* the drain of the bytes before the marker
Sync ==
    /\ pc = "sync"
    /\ IF Position(window) < 0
       THEN /\ pc' = "head"
            /\ window' = window
            /\ BodyDone
       ELSE /\ pc' = "decode"
            /\ window' = Drain(window, Position(window))
            /\ UNCHANGED <<attempts, read_len>>
    /\ UNCHANGED <<rpos, packets, last_drum_pads, sent, running, after_stop>>
    /\ UNCHANGED midiVars
    /\ UNCHANGED parseVars
    /\ UNCHANGED padVars

\* mutant: every summary is sent
ShouldSend_Always(last, pads) == TRUE

\* should_send
ShouldSend(last, pads) == IF last.some THEN last.val # pads ELSE TRUE

\* mutant: the summary is remembered whether the send succeeded or not
Remember_Always(last, pads, ok) == Some(pads)

\* last_drum_pads after the call of send_rgb_to_launchkey: Some(drum_pads)
\* in the else branch of `if let Err(e)`, untouched otherwise
Remember(last, pads, ok) == IF ok THEN Some(pads) ELSE last

\* mutant: on Invalid nothing is dropped
DrainOnInvalid_None(w) == w

\* mutant: on Invalid the whole buffer is dropped
DrainOnInvalid_Clear(w) == <<>>

\* window.drain(0..1) on Invalid
DrainOnInvalid(w) == Drain(w, 1)

\* mutant: the Invalid arm leaves the inner loop as the Incomplete arm does
AfterInvalid_Break == "head"

\* the Invalid arm has no break: the while let condition is evaluated again
AfterInvalid == "sync"

\* match try_parse_packet(&window) { .. }: one decode attempt and what the
\* loop does with its outcome
Decode ==
    /\ pc = "decode"
    /\ LET r == try_parse_packet(window) IN
       /\ res' = r
       /\ CASE r.tag = "Ok" ->
                 /\ window' = Drain(window, r.used)
                 /\ pc' = "sync"
                 /\ attempts' = attempts + 1
                 /\ UNCHANGED read_len
                 /\ IF r.payload.kind = "Slider"
                    THEN LET pads == slider_to_drum_pads(r.payload.main) IN
                         /\ packets' = Append(packets, [board |-> r.board,
                                                         payload |-> r.payload,
                                                         pads |-> pads])
                         /\ IF ShouldSend(last_drum_pads, pads)
                            THEN \E k \in SendOutcomes :
                                   /\ sent' = Append(sent, [pads |-> pads, ok |-> k = 8,
                                                            at |-> Len(packets) + 1])
                                   /\ launchkey' = PadsAfterSend(launchkey, pads, k)
                                   /\ last_drum_pads' = Remember(last_drum_pads, pads, k = 8)
                                   /\ after_stop' =
                                        IF running THEN after_stop
                                        ELSE [after_stop EXCEPT !.sends = @ + 1]
                            ELSE UNCHANGED <<sent, launchkey, last_drum_pads, after_stop>>
                    ELSE /\ packets' = Append(packets, [board |-> r.board,
                                                         payload |-> r.payload,
                                                         pads |-> <<>>])
                         /\ UNCHANGED <<sent, launchkey, last_drum_pads, after_stop>>
            [] r.tag = "Incomplete" ->
                 /\ pc' = "head"
                 /\ BodyDone
                 /\ UNCHANGED <<window, packets, sent, launchkey, last_drum_pads, after_stop>>
            [] r.tag = "Invalid" ->
                 /\ window' = DrainOnInvalid(window)
                 /\ pc' = AfterInvalid
                 /\ IF pc' = "head"
                    THEN BodyDone
                    ELSE attempts' = attempts + 1 /\ UNCHANGED read_len
                 /\ UNCHANGED <<packets, sent, launchkey, last_drum_pads, after_stop>>
            [] OTHER ->
                 /\ pc' = "panic"
                 /\ attempts' = attempts + 1
                 /\ UNCHANGED read_len
                 /\ UNCHANGED <<window, packets, sent, launchkey, last_drum_pads, after_stop>>
    /\ UNCHANGED <<rpos, running, daw_msgs>>
    /\ UNCHANGED <<wire, payload, frameStart, frameEnd, cuts, buf, decoded>>
    /\ UNCHANGED padVars

\* the cleanup of main: disable_daw_mode, whose error is only logged, Ok(())
Cleanup ==
    /\ pc = "cleanup"
    /\ \E ok \in BOOLEAN :
          daw_msgs' = Append(daw_msgs, [msg |-> "disable", ok |-> ok])
    /\ pc' = "done"
    /\ UNCHANGED <<window, rpos, packets, last_drum_pads, sent, running, launchkey>>
    /\ UNCHANGED histVars
    /\ UNCHANGED parseVars
    /\ UNCHANGED padVars

Next ==
    \/ SignalReceived
    \/ EnableDaw
    \/ SendTestColors
    \/ Connect
    \/ WaitLoop
    \/ LoopHead
    \/ ReadSome
    \/ ReadEof
    \/ ReadFails
    \/ Sync
    \/ Decode
    \/ Cleanup

Spec == StreamInit /\ [][Next]_vars

(***************************************************************************)
(* Streams of several complete frames; a read ends behind the first frame  *)
(* or behind the last one.                                                 *)
(***************************************************************************)
MaxFrames == 3    \* at most this many frames on the stream

SinkKinds == 0..2

\* kinds 0 and 1: slider frames with different colours; kind 2: a frame of
\* board 1, which is no Slider
SinkFrame(kind) ==
    IF kind < 2 THEN FrameOf(2, PayloadOf(2, kind), 0)
    ELSE FrameOf(1, PayloadOf(1, 0), 0)

RECURSIVE FramesOf(_, _)
FramesOf(script, k) ==
    IF k > Len(script) THEN <<>>
    ELSE SinkFrame(script[k]) \o FramesOf(script, k + 1)

SinkInit ==
    /\ \E len \in 1..MaxFrames :
          \E script \in [1..len -> SinkKinds] :
             /\ wire = FramesOf(script, 1)
             /\ payload = PayloadOf(IF script[1] < 2 THEN 2 ELSE 1,
                                    IF script[1] < 2 THEN script[1] ELSE 0)
             /\ frameStart = 0
             /\ frameEnd = Len(SinkFrame(script[1]))
             /\ cuts = {Len(FramesOf(SubSeq(script, 1, k), 1)) : k \in {1, len}}
    /\ StreamStart

SpecSink == SinkInit /\ [][Next]_vars

\* the packet the stream loop records for a successful decode
PacketOf(r) ==
    [board |-> r.board, payload |-> r.payload,
     pads |-> IF r.payload.kind = "Slider"
              THEN slider_to_drum_pads(r.payload.main) ELSE <<>>]

\* the inner loop run to its end on buffer w: the packets it decodes, in
\* order, after the packets acc (a panic of the decoder ends it as well)
RECURSIVE InnerLoop(_, _)
InnerLoop(w, acc) ==
    IF Position(w) < 0 THEN acc
    ELSE LET v == Drain(w, Position(w))
             r == try_parse_packet(v)
         IN  CASE r.tag = "Ok" -> InnerLoop(Drain(v, r.used), Append(acc, PacketOf(r)))
               [] r.tag = "Invalid" -> InnerLoop(DrainOnInvalid(v), acc)
               [] OTHER -> acc

(***************************************************************************)
(* Claims about the stream loop, checked under Spec.                       *)
(***************************************************************************)
\* C9: a decode attempt that returns changes the receive buffer by its
\* outcome: Ok removes exactly the consumed bytes from the head and keeps the
\* suffix, Invalid removes exactly one byte and the inner loop goes on
\* without a read, Incomplete removes nothing and leaves the inner loop; the
\* buffer then stays as it is until a read appends to its tail.
C9_DecodeEffects ==
    [][/\ (pc = "decode" /\ pc' # "decode") =>
            LET r == try_parse_packet(window) IN
            /\ r.tag = "Ok" =>
                 /\ Len(window') = Len(window) - r.used
                 /\ \A k \in 1..Len(window') : window'[k] = window[r.used + k]
                 /\ pc' = "sync"
                 /\ rpos' = rpos
            /\ r.tag = "Invalid" =>
                 /\ Len(window') = Len(window) - 1
                 /\ \A k \in 1..Len(window') : window'[k] = window[1 + k]
                 /\ pc' = "sync"
                 /\ rpos' = rpos
            /\ r.tag = "Incomplete" =>
                 /\ window' = window
                 /\ pc' = "head"
       /\ pc = "head" => window' = window
       /\ (pc = "read" /\ pc' = "sync") =>
            /\ Len(window') = Len(window) + (rpos' - rpos)
            /\ rpos' > rpos
            /\ \A k \in 1..Len(window) : window'[k] = window[k]
            /\ \A k \in 1..(rpos' - rpos) : window'[Len(window) + k] = wire[rpos + k]
      ]_vars

C9_Witness ==
    /\ pc = "sync"
    /\ res.tag = "Ok"
    /\ packets # <<>>
    /\ window = <<LED_PACKET_FRAMING, 2, 9>>
    /\ rpos = Len(wire)

\* the packet (and, for a Slider, the pad summary) the frame decodes to when
\* it stands alone
FramePacket ==
    LET r == try_parse_packet(SubSeq(wire, frameStart + 1, frameEnd)) IN
    [board |-> r.board, payload |-> r.payload,
     pads |-> IF r.payload.kind = "Slider"
              THEN slider_to_drum_pads(r.payload.main) ELSE <<>>]

\* C10: whatever garbage precedes a complete valid frame on the stream, once
\* the loop has worked through all the bytes it has skipped the garbage and
\* decoded the frame to the packet (and pad summary) the frame alone gives.
C10_GarbageThenFrame ==
    (pc = "head" /\ rpos = Len(wire)
        /\ try_parse_packet(SubSeq(wire, frameStart + 1, frameEnd)).tag = "Ok") =>
        /\ packets # <<>>
        /\ packets[1] = FramePacket

(***************************************************************************)
(* Claims about the sink calls, checked under SpecSink.                    *)
(***************************************************************************)
\* the packets that are Slider packets
IsSlider(j) == packets[j].payload.kind = "Slider"

\* the sink was called for packet j
Called(j) == \E i \in 1..Len(sent) : sent[i].at = j

\* the summary of the latest sink call before packet j that succeeded
LastOkBefore(j) ==
    LET S == {i \in 1..Len(sent) : sent[i].ok /\ sent[i].at < j} IN
    IF S = {} THEN None
    ELSE Some(sent[CHOOSE i \in S : \A h \in S : h <= i].pads)

\* packets j < h are Slider packets with no Slider packet between them
NextSlider(j, h) ==
    /\ j < h
    /\ IsSlider(j)
    /\ IsSlider(h)
    /\ \A m \in (j + 1)..(h - 1) : ~IsSlider(m)

\* C11 as stated: the sink is called for a Slider packet exactly when its
\* summary differs from the last one forwarded (always for the first), never
\* for another packet, and the second of two consecutive identical summaries
\* never produces a call, so that the two produce one.
C11_Original ==
    /\ \A j \in 1..Len(packets) :
          Called(j) <=> (IsSlider(j) /\ ShouldSend(LastOkBefore(j), packets[j].pads))
    /\ \A j \in 1..Len(packets), h \in 1..Len(packets) :
          (NextSlider(j, h) /\ packets[j].pads = packets[h].pads) => ~Called(h)

\* C11: the sink is called for a Slider packet exactly when no call has
\* succeeded yet or its summary differs from the one of the latest call that
\* succeeded, and never for another packet; every call carries the summary
\* of its packet; the second of two consecutive identical summaries produces
\* no call unless the call for the first one failed.
C11_Dedup ==
    /\ \A j \in 1..Len(packets) :
          Called(j) <=> (IsSlider(j) /\ ShouldSend(LastOkBefore(j), packets[j].pads))
    /\ \A i \in 1..Len(sent) :
          /\ sent[i].at \in 1..Len(packets)
          /\ sent[i].pads = packets[sent[i].at].pads
          /\ \A h \in 1..(i - 1) : sent[h].at < sent[i].at
    /\ \A j \in 1..Len(packets), h \in 1..Len(packets) :
          (/\ NextSlider(j, h)
           /\ packets[j].pads = packets[h].pads
           /\ \A i \in 1..Len(sent) : sent[i].at = j => sent[i].ok) => ~Called(h)

C11_Witness ==
    /\ Len(packets) = 3
    /\ \A j \in 1..3 : IsSlider(j)
    /\ packets[1].pads = packets[2].pads
    /\ packets[2].pads # packets[3].pads
    /\ Len(sent) = 2
    /\ sent[1].at = 1
    /\ sent[1].ok
    /\ sent[2].at = 3

\* the summary of the latest sink call that succeeded, None when there is none
LastOk == LastOkBefore(Len(packets) + 1)

\* C12: a sink call that fails leaves last_drum_pads as it was, the bytes of
\* the frame are removed from the buffer all the same and the inner loop
\* goes on with the rest of the buffer; last_drum_pads is at any time the
\* summary of the latest sink call that succeeded, or None.
C12_FailedSend ==
    /\ [](last_drum_pads = LastOk)
    /\ [][(Len(sent') > Len(sent) /\ ~sent'[Len(sent')].ok) =>
            /\ last_drum_pads' = last_drum_pads
            /\ pc = "decode"
            /\ pc' = "sync"
            /\ window' = Drain(window, try_parse_packet(window).used)
            /\ Len(window') < Len(window)
            /\ Len(packets') = Len(packets) + 1
         ]_vars

C12_Witness ==
    /\ Len(packets) = 3
    /\ Len(sent) >= 2
    /\ sent[1].ok
    /\ sent[2].at = 2
    /\ ~sent[2].ok
    /\ sent[2].pads # sent[1].pads
    /\ last_drum_pads = Some(sent[1].pads)
    /\ read_len = Len(wire)

(***************************************************************************)
(* Claims about the ways out of the stream loop, checked under Spec.       *)
(***************************************************************************)
\* C13: a read that returns 0 bytes leaves the stream loop at once, with no
\* decode attempt and no sink call after it; the flag found cleared by the
\* loop condition leaves the loop without another read; past the loop
\* nothing is read, decoded or sent to the pads any more.
C13_LoopExit ==
    [][/\ (pc = "read" /\ pc' \notin {"read", "read_err"} /\ rpos' = rpos) =>
            /\ pc' = "cleanup"
            /\ window' = window
            /\ packets' = packets
            /\ sent' = sent
            /\ res' = res
       /\ (pc = "head" /\ ~running /\ pc' # "head") =>
            /\ pc' = "cleanup"
            /\ rpos' = rpos
       /\ pc \in {"cleanup", "done"} =>
            /\ pc' \in {"cleanup", "done"}
            /\ rpos' = rpos
            /\ window' = window
            /\ packets' = packets
            /\ sent' = sent
            /\ res' = res
            /\ launchkey' = launchkey
      ]_vars

C13_Witness ==
    /\ pc = "cleanup"
    /\ running
    /\ rpos = Len(wire)
    /\ Len(packets) >= 1
    /\ window # <<>>

\* C14: after the signal thread has cleared the flag at most one read call
\* of the stream loop returns; the bytes of that read go through the inner
\* loop as any others; only the signal thread writes the flag, and it only
\* clears it.
C14_StopFlag ==
    /\ [](after_stop.reads <= 1)
    /\ [][/\ running' # running =>
               /\ running
               /\ pc' = pc
               /\ window' = window
               /\ rpos' = rpos
          /\ (pc = "read" /\ ~running /\ rpos' > rpos) => pc' = "sync"
         ]_vars

C14_Witness ==
    /\ ~running
    /\ after_stop.reads = 1
    /\ after_stop.sends = 1
    /\ Len(sent) = 1
    /\ pc = "done"

\* C15: every iteration of the inner loop either leaves it (no marker in
\* the buffer, Incomplete, or the decoder's panic) or makes the buffer
\* strictly shorter, by at least 2 bytes on success and by exactly 1 on
\* Invalid; the attempts made since a read plus the bytes still buffered
\* never exceed the length the buffer had after the read.
C15_InnerLoopEnds ==
    /\ [](pc \in {"sync", "decode"} =>
            /\ attempts + Len(window) <= read_len
            /\ pc = "decode" => Len(window) >= 1)
    /\ [][/\ (pc = "sync" /\ pc' # "sync") =>
               \/ pc' = "head" /\ Position(window) < 0
               \/ pc' = "decode" /\ Len(window') <= Len(window)
          /\ (pc = "decode" /\ pc' # "decode") =>
               \/ pc' = "head" /\ res'.tag = "Incomplete"
               \/ pc' = "panic"
               \/ /\ pc' = "sync"
                  /\ Len(window') < Len(window)
                  /\ res'.tag \in {"Ok", "Invalid"}
                  /\ res'.tag = "Ok" => Len(window') <= Len(window) - 2
                  /\ res'.tag = "Invalid" => Len(window') = Len(window) - 1
          /\ pc \in {"sync", "decode"} => rpos' = rpos
         ]_vars

C15_Witness ==
    /\ pc = "sync"
    /\ attempts = 3
    /\ res.tag = "Ok"
    /\ read_len = Len(wire)
    /\ window = <<>>

\* the packets decoded when the whole stream arrives in a single read
WholePackets == InnerLoop(wire, <<>>)

\* the summaries an always succeeding sink is called with for packets pk
RECURSIVE SinkCallsOf(_, _, _)
SinkCallsOf(pk, k, last) ==
    IF k > Len(pk) THEN <<>>
    ELSE IF pk[k].payload.kind = "Slider" /\ ShouldSend(last, pk[k].pads)
         THEN <<pk[k].pads>> \o SinkCallsOf(pk, k + 1, Some(pk[k].pads))
         ELSE SinkCallsOf(pk, k + 1, last)

\* C16: however the stream is split into reads, once all its bytes have
\* gone through the loop the packets decoded are the ones decoded when the
\* stream arrives in one read, and so are the sink calls when none fails.
C16_ChunkingIndependent ==
    (pc = "head" /\ rpos = Len(wire)) =>
        /\ packets = WholePackets
        /\ (\A i \in 1..Len(sent) : sent[i].ok) =>
              [i \in 1..Len(sent) |-> sent[i].pads] = SinkCallsOf(WholePackets, 1, None)

\* C17: when the main thread is about to block in read, the buffer holds no
\* frame marker at all, or it starts with a marker and a board index below 3
\* and try_parse_packet says Incomplete for it; in the second case it is
\* shorter than 2 + 2 * 189 bytes.
C17_BufferAtRead ==
    pc = "read" =>
        \/ Position(window) < 0
        \/ /\ HeaderValid(window)
           /\ try_parse_packet(window).tag = "Incomplete"
           /\ Len(window) < 2 + 2 * CHUNI_LED_BOARD_DATA_LENS[2]

C17_Witness ==
    /\ pc = "read"
    /\ HeaderValid(window)
    /\ Len(window) = 1 + 2 * CHUNI_LED_BOARD_DATA_LENS[2]
    /\ res.tag = "Incomplete"

\* C18: whenever a Slider packet is decoded and no sink call is made for it
\* (its summary equals last_drum_pads), the 8 drum pads of the controller
\* show the velocities of that summary.
C18_SkipShowsSummary ==
    [][(/\ Len(packets') = Len(packets) + 1
        /\ packets'[Len(packets')].payload.kind = "Slider"
        /\ sent' = sent) =>
            launchkey = VelocitiesOf(packets'[Len(packets')].pads)
      ]_vars

\* main has stopped: it returned Ok after the cleanup, returned the error of
\* enable_daw_mode, send_test_colors or read, or panicked
Stopped == pc \in {"done", "enable_err", "test_err", "read_err", "panic"}

\* the controller has received the message that enables DAW mode
DawEnabled == \E i \in 1..Len(daw_msgs) : daw_msgs[i] = [msg |-> "enable", ok |-> TRUE]

\* C19: whenever main has stopped after it had enabled DAW mode, it has
\* handed the message that disables DAW mode to the MIDI connection.
C19_DisableBeforeReturn ==
    (Stopped /\ DawEnabled) => \E i \in 1..Len(daw_msgs) : daw_msgs[i].msg = "disable"

====
